---- MODULE Spec2Model ----
(***************************************************************************)
(* A model of pymc3/glm/families.py: the Family base class (construction   *)
(* with keyword overrides, _get_priors, create_likelihood) and the five    *)
(* concrete families.  Python dictionaries are ordered mappings, modelled  *)
(* as sequences of [k, v] entries with unique keys; dictionary objects     *)
(* live in a heap so that aliasing between a class attribute and an        *)
(* instance attribute is visible.                                          *)
(***************************************************************************)
EXTENDS Integers, Sequences, FiniteSets, TLC

\* Total number of Family operations (constructions and method calls) explored.
MaxOps == 3

VARIABLES heap, insts, registered, context, last, nops

vars == <<heap, insts, registered, context, last, nops>>

-----------------------------------------------------------------------------
(* Values: numbers, arrays, distributions, strings, tensors, handles.      *)

Val(kind, num, id, model) == [kind |-> kind, num |-> num, id |-> id, model |-> model]

Num(n) == Val("number", n, "", "")
NdArray(n) == Val("ndarray", n, "", "")
Dist(d) == Val("dist", 0, d, "")
Str(s) == Val("str", 0, s, "")
Tensor(t) == Val("tensor", 0, t, "")
\* The handle of the variable registered under name nm in model m.
RV(m, nm) == Val("rv", 0, nm, m)

None == "None"
Models == {"M1", "M2"}

-----------------------------------------------------------------------------
(* Ordered dictionaries.                                                   *)

Keys(d) == {d[i].k : i \in 1..Len(d)}

Has(d, k) == k \in Keys(d)

Get(d, k) == d[CHOOSE i \in 1..Len(d) : d[i].k = k].v

\* d[k] = v: an existing key keeps its position, a new key goes last.
Put(d, k, v) ==
    IF Has(d, k)
    THEN [i \in 1..Len(d) |-> IF d[i].k = k THEN [k |-> k, v |-> v] ELSE d[i]]
    ELSE Append(d, [k |-> k, v |-> v])

RECURSIVE Update(_, _)
\* d.update(o)
Update(d, o) == IF o = <<>> THEN d ELSE Update(Put(d, Head(o).k, Head(o).v), Tail(o))

-----------------------------------------------------------------------------
(* Link functions.                                                         *)

\* Identity.__call__ returns its argument; the other links are tensor
\* operations, kept symbolically as the expression they build.
ApplyLink(link, x) ==
    CASE link = "identity" -> x
      [] link = "logit" -> [x EXCEPT !.id = "sigmoid(" \o @ \o ")"]
      [] link = "inverse" -> [x EXCEPT !.id = "inv(" \o @ \o ")"]
      [] link = "exp" -> [x EXCEPT !.id = "exp(" \o @ \o ")"]

-----------------------------------------------------------------------------
(* The concrete families: class attributes.  priors is a heap reference,   *)
(* 0 standing for None.                                                    *)

Classes == {"StudentT", "Normal", "Binomial", "Poisson", "NegativeBinomial"}

BinomialPriors == <<[k |-> "n", v |-> Num(1)]>>

BinomialPriorsRef == 1

ClassAttr(cls) ==
    CASE cls = "StudentT" ->
           [link |-> "identity", likelihood |-> "StudentT", parent |-> "mu", priors |-> 0]
      [] cls = "Normal" ->
           [link |-> "identity", likelihood |-> "Normal", parent |-> "mu", priors |-> 0]
      [] cls = "Binomial" ->
           [link |-> "logit", likelihood |-> "Binomial", parent |-> "p",
            priors |-> BinomialPriorsRef]
      [] cls = "Poisson" ->
           [link |-> "exp", likelihood |-> "Poisson", parent |-> "mu", priors |-> 0]
      [] cls = "NegativeBinomial" ->
           [link |-> "exp", likelihood |-> "NegativeBinomial", parent |-> "mu", priors |-> 0]

\* A fresh instance: no attribute is set on the instance itself.
NewInstance(cls) ==
    [cls |-> cls, own |-> {}, priors |-> 0, link |-> "", likelihood |-> "", parent |-> ""]

\* Attribute lookup: the instance's own attribute, else the class attribute.
SelfPriors(self) == IF "priors" \in self.own THEN self.priors ELSE ClassAttr(self.cls).priors
SelfLink(self) == IF "link" \in self.own THEN self.link ELSE ClassAttr(self.cls).link
SelfParent(self) == IF "parent" \in self.own THEN self.parent ELSE ClassAttr(self.cls).parent
SelfLikelihood(self) ==
    IF "likelihood" \in self.own THEN self.likelihood ELSE ClassAttr(self.cls).likelihood

\* setattr(self, key, val) for the attributes the model tracks.
SetAttr(self, key, val) ==
    CASE key = "link" -> [self EXCEPT !.own = @ \cup {key}, !.link = val]
      [] key = "parent" -> [self EXCEPT !.own = @ \cup {key}, !.parent = val]
      [] key = "likelihood" -> [self EXCEPT !.own = @ \cup {key}, !.likelihood = val]

-----------------------------------------------------------------------------
(* Family.__init__                                                         *)

\* Mutant of CopyPriors: no copy is made, the instance shares the class's
\* dictionary object.
CopyPriorsAlias(h, ref) == [heap |-> h, ref |-> ref]

\* copy(self.priors): a new dictionary object holding the same entries
\* (a shallow copy); copy(None) is None.
CopyPriors(h, ref) ==
    IF ref = 0
    THEN [heap |-> h, ref |-> 0]
    ELSE [heap |-> Append(h, h[ref]), ref |-> Len(h) + 1]

\* The "priors" keyword: self.priors = copy(self.priors), then
\* self.priors.update(val).  update on None raises AttributeError; update
\* with an argument that is no mapping raises TypeError.
InitPriors(h, self, val) ==
    LET c == CopyPriors(h, SelfPriors(self))
        s1 == [self EXCEPT !.own = @ \cup {"priors"}, !.priors = c.ref]
    IN  IF c.ref = 0
        THEN [err |-> "AttributeError", heap |-> h, self |-> s1]
        ELSE IF ~val.mapping
        THEN [err |-> "TypeError", heap |-> c.heap, self |-> s1]
        ELSE [err |-> "", heap |-> [c.heap EXCEPT ![c.ref] = Update(@, val.d)], self |-> s1]

RECURSIVE InitLoop(_, _, _)
\* for key, val in kwargs.items(): the first exception ends the loop.
InitLoop(h, self, kwargs) ==
    IF kwargs = <<>>
    THEN [err |-> "", heap |-> h, self |-> self]
    ELSE LET kv == Head(kwargs) IN
         IF kv.k = "priors"
         THEN LET r == InitPriors(h, self, kv.p) IN
              IF r.err # "" THEN r ELSE InitLoop(r.heap, r.self, Tail(kwargs))
         ELSE InitLoop(h, SetAttr(self, kv.k, kv.s), Tail(kwargs))

\* Family.__init__(self, **kwargs) on a fresh instance of cls.
__init__(h, cls, kwargs) == InitLoop(h, NewInstance(cls), kwargs)

-----------------------------------------------------------------------------
(* The model context of the host framework.                                *)

\* modelcontext(model): the given model, else the innermost active one;
\* with neither, the lookup raises TypeError.
modelcontext(model, ctx) ==
    IF model # None
    THEN [ok |-> TRUE, m |-> model]
    ELSE IF ctx # <<>>
    THEN [ok |-> TRUE, m |-> ctx[Len(ctx)]]
    ELSE [ok |-> FALSE, m |-> None]

\* model.register_rv(val, name): a distribution becomes a named variable
\* of the model; anything else is a malformed prior and raises.
register_rv(m, val, nm) ==
    IF val.kind = "dist"
    THEN [ok |-> TRUE, rv |-> RV(m, nm)]
    ELSE [ok |-> FALSE, rv |-> RV(m, nm)]

\* A likelihood constructor called with a name, observed data and keyword
\* parameters: it registers the observed variable in the active model
\* context, and raises TypeError when there is none.
Distribution(nm, ctx) ==
    IF ctx # <<>>
    THEN [ok |-> TRUE, m |-> ctx[Len(ctx)], rv |-> RV(ctx[Len(ctx)], nm)]
    ELSE [ok |-> FALSE, m |-> None, rv |-> RV(None, nm)]

-----------------------------------------------------------------------------
(* Family._get_priors                                                      *)

\* if name: name = f"{name}_"
NamePrefix(name) == IF name # "" THEN name \o "_" ELSE name

\* isinstance(val, (numbers.Number, np.ndarray, np.generic))
IsNumeric(val) == val.kind \in {"number", "ndarray", "generic"}

Reg(m, nm, k) == [model |-> m, name |-> nm, key |-> k]

RECURSIVE ResolveItemsKeepGoing(_, _, _, _)
\* Mutant of ResolveItems: a failed registration is noted and the loop goes
\* on with the remaining priors.
ResolveItemsKeepGoing(items, m, prefix, acc) ==
    IF items = <<>>
    THEN acc
    ELSE LET e == Head(items) IN
         IF IsNumeric(e.v)
         THEN ResolveItemsKeepGoing(Tail(items), m, prefix,
                                    [acc EXCEPT !.priors = Put(@, e.k, e.v)])
         ELSE LET r == register_rv(m, e.v, prefix \o e.k) IN
              IF r.ok
              THEN ResolveItemsKeepGoing(Tail(items), m, prefix,
                                [acc EXCEPT !.priors = Put(@, e.k, r.rv),
                                            !.regs = Append(@, Reg(m, prefix \o e.k, e.k))])
              ELSE ResolveItemsKeepGoing(Tail(items), m, prefix,
                                         [acc EXCEPT !.err = "register_rv"])

RECURSIVE ResolveItems(_, _, _, _)
\* for key, val in self.priors.items(): acc holds the local dictionary and
\* the registrations made so far; an exception ends the loop.
ResolveItems(items, m, prefix, acc) ==
    IF items = <<>>
    THEN acc
    ELSE LET e == Head(items) IN
         IF IsNumeric(e.v)
         THEN ResolveItems(Tail(items), m, prefix,
                           [acc EXCEPT !.priors = Put(@, e.k, e.v)])
         ELSE LET r == register_rv(m, e.v, prefix \o e.k) IN
              IF r.ok
              THEN ResolveItems(Tail(items), m, prefix,
                                [acc EXCEPT !.priors = Put(@, e.k, r.rv),
                                            !.regs = Append(@, Reg(m, prefix \o e.k, e.k))])
              ELSE [acc EXCEPT !.err = "register_rv"]

\* Mutant of PriorsModel: without any context, fall back on a default model.
PriorsModelFallback(model, ctx) ==
    IF modelcontext(model, ctx).ok THEN modelcontext(model, ctx) ELSE [ok |-> TRUE, m |-> "M1"]

\* model = modelcontext(model): the model the priors are registered in.
PriorsModel(model, ctx) == modelcontext(model, ctx)

\* Mutant of HeapAfterResolve: the result is written into self.priors itself.
HeapAfterResolveAlias(h, self, resolved) ==
    IF SelfPriors(self) = 0 THEN h ELSE [h EXCEPT ![SelfPriors(self)] = resolved]

\* What the call leaves in the heap: the result is built in a new local
\* dictionary (priors = {}), so no existing dictionary changes.
HeapAfterResolve(h, self, resolved) == h

\* _get_priors(self, model, name) with ctx the active contexts.
_get_priors(h, self, model, name, ctx) ==
    LET prefix == NamePrefix(name)
        mc == PriorsModel(model, ctx)
        acc0 == [err |-> "", priors |-> <<>>, regs |-> <<>>]
    IN  IF ~mc.ok
        THEN [acc0 EXCEPT !.err = "TypeError:modelcontext"]
        ELSE IF SelfPriors(self) = 0
        THEN [acc0 EXCEPT !.err = "AttributeError:items"]
        ELSE ResolveItems(h[SelfPriors(self)], mc.m, prefix, acc0)

-----------------------------------------------------------------------------
(* Family.create_likelihood                                                *)

\* Mutant of SetParent: an existing entry under parent is kept.
SetParentDefault(priors, parent, val) ==
    IF Has(priors, parent) THEN priors ELSE Put(priors, parent, val)

\* priors[self.parent] = self.link(y_est)
SetParent(priors, parent, val) == Put(priors, parent, val)

\* Mutant of LikelihoodName: the prefix is applied to an already prefixed name.
LikelihoodNameTwice(name) == NamePrefix(NamePrefix(name)) \o "y"

\* f"{name}y" after if name: name = f"{name}_"
LikelihoodName(name) == (IF name # "" THEN name \o "_" ELSE name) \o "y"

NoLik == [called |-> FALSE, dist |-> "", name |-> "", observed |-> "", kwargs |-> <<>>]

\* create_likelihood(self, name, y_est, y_data, model) with ctx the active
\* contexts: the error, the registrations in order, whether the link was
\* applied, the constructor call and the returned handle.
create_likelihood(h, self, name, y_est, y_data, model, ctx) ==
    LET g == _get_priors(h, self, model, name, ctx)
        res0 == [err |-> g.err, regs |-> g.regs, priors |-> g.priors, linked |-> FALSE,
                 lik |-> NoLik, ret |-> RV(None, "")]
    IN  IF g.err # ""
        THEN res0
        ELSE LET priors == SetParent(g.priors, SelfParent(self), ApplyLink(SelfLink(self), y_est))
                 lname == LikelihoodName(name)
                 call == [called |-> TRUE, dist |-> SelfLikelihood(self), name |-> lname,
                          observed |-> y_data, kwargs |-> priors]
                 d == Distribution(lname, ctx)
             IN  IF d.ok
                 THEN [res0 EXCEPT !.priors = priors, !.linked = TRUE, !.lik = call,
                                   !.regs = Append(@, Reg(d.m, lname, "y")), !.ret = d.rv]
                 ELSE [res0 EXCEPT !.priors = priors, !.linked = TRUE, !.lik = call,
                                   !.err = "TypeError:likelihood"]

-----------------------------------------------------------------------------
(* Inputs.                                                                 *)

E(k, v) == [k |-> k, v |-> v]

HalfCauchy == Dist("HalfCauchy")

\* Prior overrides passed as priors=...
PriorOverrides ==
    { <<E("n", Num(5))>>,
      <<E("alpha", HalfCauchy), E("p", HalfCauchy)>>,
      <<E("alpha", HalfCauchy), E("beta", Str("flat")), E("p", HalfCauchy)>> }

NoPriorsArg == [mapping |-> FALSE, d |-> <<>>]
PriorsKw(d) == [k |-> "priors", s |-> "", p |-> [mapping |-> TRUE, d |-> d]]
\* priors=5: not a mapping.
PriorsNotMapping == [k |-> "priors", s |-> "", p |-> NoPriorsArg]
AttrKw(k, s) == [k |-> k, s |-> s, p |-> NoPriorsArg]

\* Keyword arguments of a construction, in call order.
KwargsSets ==
    {<<>>, <<PriorsNotMapping>>,
     <<AttrKw("parent", "n"), AttrKw("link", "inverse"), PriorsKw(<<E("n", NdArray(5))>>)>>}
    \cup {<<PriorsKw(d)>> : d \in PriorOverrides}

\* The stacks of active model contexts ("with model:" blocks), innermost last.
Contexts == {<<>>, <<"M1">>, <<"M1", "M2">>}

CallNames == {"", "g"}
Estimates == {Tensor("y_est")}
Observed == "y_data"

-----------------------------------------------------------------------------
(* State.                                                                  *)

NoLast ==
    [op |-> "none", inst |-> 0, cls |-> "", kwargs |-> <<>>, name |-> "", model |-> None,
     est |-> Tensor(""), ctx |-> <<>>, err |-> "", regs |-> <<>>, priors |-> <<>>,
     linked |-> FALSE, lik |-> NoLik, ret |-> RV(None, "")]

RECURSIVE AddRegs(_, _)
\* The models' registries after the registrations regs, in order.
AddRegs(reg, regs) ==
    IF regs = <<>>
    THEN reg
    ELSE AddRegs([reg EXCEPT ![Head(regs).model] = Append(@, Head(regs).name)], Tail(regs))

Init ==
    /\ heap = <<BinomialPriors>>
    /\ insts = <<>>
    /\ registered = [m \in Models |-> <<>>]
    /\ context \in Contexts
    /\ last = NoLast
    /\ nops = 0

\* cls(**kwargs)
Construct(cls, kwargs) ==
    /\ nops < MaxOps
    /\ LET r == __init__(heap, cls, kwargs) IN
       /\ heap' = IF r.err = "" THEN r.heap ELSE heap
       /\ insts' = IF r.err = "" THEN Append(insts, r.self) ELSE insts
       /\ last' = [NoLast EXCEPT !.op = "__init__", !.cls = cls, !.kwargs = kwargs,
                                 !.inst = IF r.err = "" THEN Len(insts) + 1 ELSE 0,
                                 !.err = r.err]
    /\ nops' = nops + 1
    /\ UNCHANGED <<registered, context>>

\* insts[i]._get_priors(model=model, name=name)
GetPriors(i, model, name) ==
    /\ nops < MaxOps
    /\ LET r == _get_priors(heap, insts[i], model, name, context) IN
       /\ registered' = AddRegs(registered, r.regs)
       /\ heap' = HeapAfterResolve(heap, insts[i], r.priors)
       /\ last' = [NoLast EXCEPT !.op = "_get_priors", !.inst = i, !.name = name,
                                 !.model = model, !.ctx = context, !.err = r.err,
                                 !.regs = r.regs,
                                 !.priors = IF r.err = "" THEN r.priors ELSE <<>>]
    /\ nops' = nops + 1
    /\ UNCHANGED <<insts, context>>

\* insts[i].create_likelihood(name, y_est, y_data, model=model)
CreateLikelihood(i, name, y_est, model) ==
    /\ nops < MaxOps
    /\ LET r == create_likelihood(heap, insts[i], name, y_est, Observed, model, context) IN
       /\ registered' = AddRegs(registered, r.regs)
       /\ heap' = HeapAfterResolve(heap, insts[i], r.priors)
       /\ last' = [NoLast EXCEPT !.op = "create_likelihood", !.inst = i, !.name = name,
                                 !.model = model, !.est = y_est, !.ctx = context,
                                 !.err = r.err, !.regs = r.regs, !.linked = r.linked,
                                 !.lik = r.lik, !.ret = r.ret]
    /\ nops' = nops + 1
    /\ UNCHANGED <<insts, context>>

Next ==
    \/ \E cls \in Classes, kwargs \in KwargsSets : Construct(cls, kwargs)
    \/ \E i \in 1..Len(insts), model \in Models \cup {None}, name \in CallNames :
          GetPriors(i, model, name)
    \/ \E i \in 1..Len(insts), model \in Models \cup {None}, name \in CallNames,
          y_est \in Estimates : CreateLikelihood(i, name, y_est, model)

Spec == Init /\ [][Next]_vars

-----------------------------------------------------------------------------
(* Properties.                                                             *)

Calls == {"_get_priors", "create_likelihood"}

\* The instance the last operation acted on.
LastSelf == insts[last.inst]

\* The entries of a family instance's priors (self.priors is no None).
PriorsOf(self) == heap[SelfPriors(self)]

\* The step is a method call.
CallStep == nops' = nops + 1 /\ last'.op \in Calls

NonNumericKeys(d) == {d[i].k : i \in {j \in 1..Len(d) : ~IsNumeric(d[j].v)}}

WellFormed(d) == \A i \in 1..Len(d) : IsNumeric(d[i].v) \/ d[i].v.kind = "dist"

\* The name the prefix rule gives key k under name g.
PrefixedName(g, k) == IF g = "" THEN k ELSE g \o "_" \o k

\* C1: whenever create_likelihood calls the likelihood constructor, the
\* keyword mapping it passes holds link(estimate) under the family's parent
\* key, whatever the instance's priors hold under that key.
C1_ParentIsLinkedEstimate ==
    last.lik.called =>
        /\ Has(last.lik.kwargs, SelfParent(LastSelf))
        /\ Get(last.lik.kwargs, SelfParent(LastSelf)) = ApplyLink(SelfLink(LastSelf), last.est)

\* C1 witness: the constructor was called by a family whose priors hold a
\* distribution under the parent key.
C1_Witness ==
    /\ last.lik.called
    /\ last.err = ""
    /\ Has(PriorsOf(LastSelf), SelfParent(LastSelf))
    /\ Get(PriorsOf(LastSelf), SelfParent(LastSelf)).kind = "dist"

\* C2: for every family, _get_priors with a model context available (and
\* priors that are numbers or distributions) returns a mapping with the keys
\* of the instance's priors, numeric entries unchanged and every other entry
\* replaced by its registered handle.
C2_ResolveReturnsAllKeys ==
    (/\ last.op = "_get_priors"
     /\ modelcontext(last.model, last.ctx).ok
     /\ (SelfPriors(LastSelf) # 0 => WellFormed(PriorsOf(LastSelf))))
    => /\ last.err = ""
       /\ SelfPriors(LastSelf) # 0
       /\ Keys(last.priors) = Keys(PriorsOf(LastSelf))
       /\ \A k \in Keys(last.priors) :
             IF IsNumeric(Get(PriorsOf(LastSelf), k))
             THEN Get(last.priors, k) = Get(PriorsOf(LastSelf), k)
             ELSE Get(last.priors, k).kind = "rv"

\* The priors=... argument of a construction.
KwPriors(kwargs) == kwargs[CHOOSE i \in 1..Len(kwargs) : kwargs[i].k = "priors"].p

HasKwPriors(kwargs) == \E i \in 1..Len(kwargs) : kwargs[i].k = "priors"

\* After a construction of Binomial with a priors mapping, the instance's
\* mapping is the class defaults updated by the supplied entries.
C3_Merged ==
    (/\ last.op = "__init__"
     /\ last.cls = "Binomial"
     /\ HasKwPriors(last.kwargs)
     /\ KwPriors(last.kwargs).mapping)
    => /\ last.err = ""
       /\ "priors" \in LastSelf.own
       /\ PriorsOf(LastSelf) = Update(<<E("n", Num(1))>>, KwPriors(last.kwargs).d)

\* The class-level default mapping of Binomial is as declared.
C3_ClassDefault == heap[BinomialPriorsRef] = <<E("n", Num(1))>>

\* No step changes an existing instance or the entries of its priors.
C3_Frame ==
    \A i \in 1..Len(insts) :
        /\ Len(insts') >= i
        /\ insts'[i] = insts[i]
        /\ SelfPriors(insts[i]) # 0 => heap'[SelfPriors(insts[i])] = PriorsOf(insts[i])

\* C3: constructing Binomial with a priors override gives the class defaults
\* updated by the supplied entries, and no construction or call changes the
\* class-level default mapping or the priors of any other instance.
C3_MergeKeepsDefaults == [][C3_Merged' /\ C3_ClassDefault' /\ C3_Frame]_vars

\* C3 witness: Binomial(priors={"n": 5}) was constructed as a second
\* instance and holds n = 5.
C3_Witness ==
    /\ last.op = "__init__"
    /\ last.cls = "Binomial"
    /\ last.inst = 2
    /\ "priors" \in LastSelf.own
    /\ Get(PriorsOf(LastSelf), "n") = Num(5)

\* C4: every name a create_likelihood call produces follows the prefix rule:
\* the bare key (and "y") under an empty name, "g_" + key (and "g_y") under
\* a name g.
C4_PrefixRule ==
    last.op = "create_likelihood" =>
        /\ \A j \in 1..Len(last.regs) :
              last.regs[j].name = PrefixedName(last.name, last.regs[j].key)
        /\ last.lik.called => last.lik.name = PrefixedName(last.name, "y")

\* C4 witness: a successful call under the name "g" that registered priors
\* and the likelihood.
C4_Witness ==
    /\ last.op = "create_likelihood"
    /\ last.name = "g"
    /\ last.err = ""
    /\ Len(last.regs) >= 2

\* C5: construction never fails (the priors keyword being a mapping).
C5_ConstructionNeverFails ==
    (/\ last.op = "__init__"
     /\ HasKwPriors(last.kwargs) => KwPriors(last.kwargs).mapping)
    => last.err = ""

\* C6: a call with no model supplied and no active context fails with the
\* context lookup's error, registers nothing and constructs no likelihood.
C6_NoContextFails ==
    [][(CallStep /\ last'.model = None /\ last'.ctx = <<>>)
       => /\ last'.err = "TypeError:modelcontext"
          /\ last'.regs = <<>>
          /\ ~last'.lik.called
          /\ registered' = registered]_vars

\* C6 witness: create_likelihood was called without model and context on a
\* family that has a distribution among its priors.
C6_Witness ==
    /\ last.op = "create_likelihood"
    /\ last.model = None
    /\ last.ctx = <<>>
    /\ SelfPriors(LastSelf) # 0
    /\ NonNumericKeys(PriorsOf(LastSelf)) # {}

\* The model a call's registrations are meant for: the supplied one, else
\* the active one.
TargetModel == IF last.model # None THEN last.model ELSE last.ctx[Len(last.ctx)]

\* C7: all variables one create_likelihood call registers, priors and
\* likelihood, land in the supplied model, or in the active one when none
\* is supplied.
C7_OneModel ==
    last.op = "create_likelihood" =>
        \A j \in 1..Len(last.regs) : last.regs[j].model = TargetModel

\* The index of the first prior whose registration fails, 0 if none does.
FirstBad(d) ==
    IF WellFormed(d)
    THEN 0
    ELSE CHOOSE i \in 1..Len(d) :
            /\ ~(IsNumeric(d[i].v) \/ d[i].v.kind = "dist")
            /\ WellFormed(SubSeq(d, 1, i - 1))

\* The keys of the non-numeric entries of d, in order.
NonNumericSeq(d) == SelectSeq(d, LAMBDA e : ~IsNumeric(e.v))

\* C8: in create_likelihood with a model to register in, the priors are
\* registered in order before the likelihood; the first failing registration
\* ends the call with its error, after exactly the registrations before it,
\* with no link applied and no likelihood constructed, and those
\* registrations stay in the model.
C8_FirstFailureAborts ==
    [][(/\ CallStep
        /\ last'.op = "create_likelihood"
        /\ modelcontext(last'.model, last'.ctx).ok
        /\ SelfPriors(insts[last'.inst]) # 0)
       => LET d == PriorsOf(insts[last'.inst])
              f == FirstBad(d)
              m == modelcontext(last'.model, last'.ctx).m
              before == NonNumericSeq(IF f = 0 THEN d ELSE SubSeq(d, 1, f - 1))
          IN  /\ registered' = AddRegs(registered, last'.regs)
              /\ Len(last'.regs) >= Len(before)
              /\ \A j \in 1..Len(before) :
                    /\ last'.regs[j].key = before[j].k
                    /\ last'.regs[j].model = m
              /\ f # 0 => /\ last'.err = "register_rv"
                          /\ Len(last'.regs) = Len(before)
                          /\ ~last'.linked
                          /\ ~last'.lik.called
              /\ f = 0 => /\ last'.linked
                          /\ last'.lik.called
                          /\ Len(last'.regs) <= Len(before) + 1]_vars

\* C8 witness: a call failed in a registration after registering an earlier
\* prior, which is the last entry of its model's registry.
C8_Witness ==
    /\ last.op = "create_likelihood"
    /\ last.err = "register_rv"
    /\ Len(last.regs) >= 1
    /\ Len(PriorsOf(LastSelf)) > FirstBad(PriorsOf(LastSelf))
    /\ LET r == last.regs[Len(last.regs)] IN
           /\ registered[r.model] # <<>>
           /\ registered[r.model][Len(registered[r.model])] = r.name

\* C9: a call changes no instance and no priors mapping, and a
\* create_likelihood call repeated with the same arguments passes the same
\* call to the likelihood constructor.
C9_CallsLeaveInstance ==
    [][CallStep
       => /\ insts' = insts
          /\ heap' = heap
          /\ (/\ last.op = "create_likelihood"
              /\ last'.op = "create_likelihood"
              /\ last'.inst = last.inst
              /\ last'.name = last.name
              /\ last'.est = last.est
              /\ last'.model = last.model)
             => /\ last'.lik = last.lik
                /\ last'.err = last.err]_vars

\* C9 witness: the same successful create_likelihood call was made twice on
\* a family with a distribution under its parent key.
C9_Witness ==
    /\ last.op = "create_likelihood"
    /\ last.err = ""
    /\ nops = 3
    /\ Len(insts) = 1
    /\ Has(PriorsOf(LastSelf), SelfParent(LastSelf))
    /\ Get(PriorsOf(LastSelf), SelfParent(LastSelf)).kind = "dist"
    /\ \E m \in Models :
          registered[m] = [j \in 1..(2 * Len(last.regs)) |->
                              last.regs[((j - 1) % Len(last.regs)) + 1].name]

\* C10: a successful create_likelihood call registers as many variables as
\* the family has non-numeric priors under keys other than parent, plus one.
C10_ParentPriorNotRegistered ==
    (last.op = "create_likelihood" /\ last.err = "")
    => Len(last.regs) = Cardinality(NonNumericKeys(PriorsOf(LastSelf)) \ {SelfParent(LastSelf)}) + 1

====
